---- MODULE Spec2Model ----
(***************************************************************************)
(* A model of the solo miner of src/src/main.rs: the orchestrator loop of  *)
(* main, one Stratum session and nonce search (bitcoin_miner), the block   *)
(* height monitor (new_block_listener), the MiningConfig they share behind *)
(* one mutex, and the pure helpers calculate_target and hash_meets_target. *)
(*                                                                         *)
(* Conventions.  A hex string is a sequence of character codes: 0..15 are  *)
(* the hex digits, NonHex is any other character.  A byte buffer of fixed  *)
(* width 32 is a function on 0..31 so that offsets are those of the Rust   *)
(* code.  A fallible result (anyhow::Result) is a record [ok, val].        *)
(***************************************************************************)
EXTENDS Integers, Sequences, FiniteSets, TLC

\* ------------------------------------------------------------------ bounds

\* Heights returned by the height source are drawn from 0..MaxHeight (u64 in
\* the source; no arithmetic is done on heights, only comparisons).
MaxHeight == 2

\* Width of the nonce counter in bits.  The source's counter is a u32
\* (main.rs:478); the model keeps the wrapping arithmetic and scales the width
\* so that the wrap-around is reached.
NonceBits == 2

\* Number of nonces tried between two height checks.  The source's
\* HASHES_PER_BATCH is 1000 (main.rs:25); the model scales it.
HASHES_PER_BATCH == 2

NonceModulus == 2 ^ NonceBits

Nonces == 0 .. (NonceModulus - 1)

Heights == 0 .. MaxHeight

\* ------------------------------------------------------------- hex strings

NonHex == 16

Ok(v) == [ok |-> TRUE, val |-> v]

Err == [ok |-> FALSE, val |-> <<>>]

\* hex::decode: fails on an odd length or on a character that is no hex digit.
hex_decode(s) ==
    IF Len(s) % 2 # 0 \/ (\E i \in 1 .. Len(s) : s[i] \notin 0 .. 15)
    THEN Err
    ELSE Ok([i \in 1 .. (Len(s) \div 2) |-> 16 * s[2 * i - 1] + s[2 * i]])

\* hex::encode of a byte sequence.
hex_encode(b) ==
    [i \in 1 .. (2 * Len(b)) |->
        IF i % 2 = 1 THEN b[(i + 1) \div 2] \div 16 ELSE b[i \div 2] % 16]

\* usize::saturating_sub
saturating_sub(a, b) == IF a >= b THEN a - b ELSE 0

Zero32 == [i \in 0 .. 31 |-> 0]

\* ------------------------------------------------------- calculate_target

\* A variant that reads the placement as "three bytes further right"
\* (start at 35 - exponent, bytes that fall outside the buffer dropped).
calculate_target_shifted(nbits) ==
    IF Len(nbits) # 8 THEN Err
    ELSE LET d == hex_decode(nbits) IN
        IF ~d.ok THEN Err
        ELSE IF Len(d.val) # 4 THEN Err
        ELSE LET exponent == d.val[1] IN
            IF exponent < 3 THEN Err
            ELSE IF exponent > 32 THEN Err
            ELSE LET start_pos == 35 - exponent IN
                Ok([i \in 0 .. 31 |->
                        IF i = start_pos THEN d.val[2]
                        ELSE IF i = start_pos + 1 THEN d.val[3]
                        ELSE IF i = start_pos + 2 THEN d.val[4]
                        ELSE 0])

calculate_target(nbits) ==
    IF Len(nbits) # 8 THEN Err
    ELSE LET d == hex_decode(nbits) IN
        IF ~d.ok THEN Err
        ELSE IF Len(d.val) # 4 THEN Err
        ELSE LET exponent == d.val[1] IN
            IF exponent < 3 THEN Err
            ELSE IF exponent > 32 THEN Err
            ELSE LET shift_bytes == exponent - 3 IN
                IF shift_bytes >= 32 THEN Ok(Zero32)
                ELSE LET start_pos == saturating_sub(saturating_sub(32, shift_bytes), 3) IN
                    Ok([i \in 0 .. 31 |->
                            IF start_pos < 32 /\ i = start_pos THEN d.val[2]
                            ELSE IF start_pos < 32 /\ start_pos + 1 < 32 /\ i = start_pos + 1
                                THEN d.val[3]
                            ELSE IF start_pos < 32 /\ start_pos + 2 < 32 /\ i = start_pos + 2
                                THEN d.val[4]
                            ELSE 0])

\* ------------------------------------------------------ hash_meets_target

\* The loop of hash_meets_target from index i on: the first differing byte
\* decides, and running off the end means the two are equal.
RECURSIVE meets_from(_, _, _)
meets_from(hash, target, i) ==
    IF i >= 32 THEN TRUE
    ELSE IF hash[i] < target[i] THEN TRUE
    ELSE IF hash[i] > target[i] THEN FALSE
    ELSE meets_from(hash, target, i + 1)

\* A variant that rejects a hash equal to the target (strict comparison).
RECURSIVE meets_from_strict(_, _, _)
meets_from_strict(hash, target, i) ==
    IF i >= 32 THEN FALSE
    ELSE IF hash[i] < target[i] THEN TRUE
    ELSE IF hash[i] > target[i] THEN FALSE
    ELSE meets_from_strict(hash, target, i + 1)

hash_meets_target_strict(hash, target) ==
    IF DOMAIN hash # 0 .. 31 \/ DOMAIN target # 0 .. 31 THEN FALSE
    ELSE meets_from_strict(hash, target, 0)

hash_meets_target(hash, target) ==
    IF DOMAIN hash # 0 .. 31 \/ DOMAIN target # 0 .. 31 THEN FALSE
    ELSE meets_from(hash, target, 0)

\* ------------------------------------------------- reverse_hex_bytes, header

\* reverse_hex_bytes: the two-character groups in reverse order; a trailing
\* lone character (odd length) is skipped by the i + 1 < len test.
reverse_hex_bytes(hex_str) ==
    LET p == Len(hex_str) \div 2 IN
    [k \in 1 .. (2 * p) |->
        IF k % 2 = 1 THEN hex_str[2 * (p - ((k + 1) \div 2)) + 1]
        ELSE hex_str[2 * (p - (k \div 2)) + 2]]

\* format!("{:0>w}", s): '0' added on the left up to width w, never truncated.
pad_left(s, w) == [i \in 1 .. saturating_sub(w, Len(s)) |-> 0] \o s

\* format!("{:0<w}", s): '0' added on the right up to width w, never truncated.
pad_right(s, w) == s \o [i \in 1 .. saturating_sub(w, Len(s)) |-> 0]

create_block_header(version, prevhash, merkle_root, nbits, ntime, nonce) ==
    hex_decode(pad_left(version, 8) \o pad_right(prevhash, 64)
               \o pad_right(merkle_root, 64) \o pad_left(nbits, 8)
               \o pad_left(ntime, 8) \o pad_left(nonce, 8))

\* format!("{:08x}", n) for a nonce of NonceBits bits: eight hex digits.
nonce_hex_of(n) == [i \in 1 .. 8 |-> (n \div (16 ^ (8 - i))) % 16]

\* ------------------------------------------------------------ merkle root

\* SHA-256 itself is not computed.  What stands for it is a 32-byte digest
\* made of a checksum of the data that weighs every byte by its position, so
\* that the digest depends on the bytes and on their order.  It serves for
\* the coinbase hash and the merkle fold; the digest of a block header, which
\* decides whether a nonce is a solution, is drawn per nonce from HashSamples
\* instead (the variable oracle).
RECURSIVE weighted_sum(_, _, _)
weighted_sum(data, lo, hi) ==
    IF lo > hi THEN 0
    ELSE IF lo = hi THEN lo * (data[lo] + 1)
    ELSE LET mid == (lo + hi) \div 2 IN
        (weighted_sum(data, lo, mid) + weighted_sum(data, mid + 1, hi)) % 65521

sha256(data) ==
    LET c == (Len(data) + weighted_sum(data, 1, Len(data))) % 65521 IN
    [i \in 1 .. 32 |->
        IF i % 2 = 1 THEN ((c % 256) + i) % 256 ELSE ((c \div 256) + i) % 256]

\* main.rs:214-218
double_sha256(data) == sha256(sha256(data))

\* A variant that puts the branch entry before the accumulator.
combined_branch_first(merkle_root, branch_bytes) == branch_bytes \o merkle_root

\* main.rs:459-460: the accumulator, then the branch entry.
combined(merkle_root, branch_bytes) == merkle_root \o branch_bytes

\* main.rs:455-463: the loop over the branch from entry k on, with the
\* accumulator merkle_root; a branch entry that is no hex ends it in error.
RECURSIVE merkle_fold(_, _, _)
merkle_fold(merkle_root, merkle_branch, k) ==
    IF k > Len(merkle_branch) THEN Ok(merkle_root)
    ELSE LET branch_bytes == hex_decode(merkle_branch[k]) IN
        IF ~branch_bytes.ok THEN Err
        ELSE merkle_fold(double_sha256(combined(merkle_root, branch_bytes.val)),
                         merkle_branch, k + 1)

\* ------------------------------------------------------------ JSON values

JStr(s) == [t |-> "str", v |-> s, a |-> <<>>]

JNum(n) == [t |-> "num", v |-> <<n>>, a |-> <<>>]

JBool(b) == [t |-> "bool", v |-> <<IF b THEN 1 ELSE 0>>, a |-> <<>>]

JArr(items) == [t |-> "arr", v |-> <<>>, a |-> items]

JNull == [t |-> "null", v |-> <<>>, a |-> <<>>]

\* serde_json's value[i]: Null when the value is no array or i is out of range.
json_index(val, i) ==
    IF val.t = "arr" /\ i + 1 <= Len(val.a) THEN val.a[i + 1] ELSE JNull

\* Value::as_str, as an Option
as_str(val) == IF val.t = "str" THEN Ok(val.v) ELSE Err

\* Value::as_u64().unwrap_or(0)
as_u64_or_0(val) == IF val.t = "num" THEN val.v[1] ELSE 0

\* A variant that takes the number 1 for true.
as_bool_truthy(val) == val.t \in {"bool", "num"} /\ val.v = <<1>>

\* Value::as_bool().unwrap_or(false)
as_bool_or_false(val) == val.t = "bool" /\ val.v = <<1>>

\* params.as_array().map(|a| a.len()).unwrap_or(0)
array_len_or_0(val) == IF val.t = "arr" THEN Len(val.a) ELSE 0

\* ------------------------------------------------------- the pool's stream

\* What the pool sends is a sequence of tokens.  A line is well-formed JSON
\* when it is an "open" token, members, and a "close" token; "nl" is the
\* newline; "junk" is text that is no JSON.  The member "notify" is the text
\* "method":"mining.notify".
Tok(k, j) == [k |-> k, j |-> j]

TOpen == Tok("open", JNull)

TClose == Tok("close", JNull)

TNl == Tok("nl", JNull)

TJunk == Tok("junk", JNull)

TNotify == Tok("notify", JNull)

Members == {"result", "params", "notify"}

\* str::split('\n'): the pieces between newlines (always at least one piece).
RECURSIVE split_lines(_)
split_lines(text) ==
    IF \A i \in 1 .. Len(text) : text[i].k # "nl" THEN <<text>>
    ELSE LET i == CHOOSE i \in 1 .. Len(text) :
                    text[i].k = "nl" /\ \A j \in 1 .. (i - 1) : text[j].k # "nl"
         IN <<SubSeq(text, 1, i - 1)>> \o split_lines(SubSeq(text, i + 1, Len(text)))

\* str::contains("mining.notify")
contains_notify(text) == \E i \in 1 .. Len(text) : text[i].k = "notify"

\* serde_json::from_str of one line: Ok(the object's members) or Err.
json_from_str(line) ==
    IF Len(line) >= 2 /\ line[1].k = "open" /\ line[Len(line)].k = "close"
       /\ \A i \in 2 .. (Len(line) - 1) : line[i].k \in Members
    THEN Ok(SubSeq(line, 2, Len(line) - 1))
    ELSE Err

\* value["name"]: the member's value, Null when the object has no such member.
json_member(obj, name) ==
    IF \E i \in 1 .. Len(obj) : obj[i].k = name
    THEN obj[CHOOSE i \in 1 .. Len(obj) :
                obj[i].k = name /\ \A j \in (i + 1) .. Len(obj) : obj[j].k # name].j
    ELSE JNull

\* ------------------------------------------------------------ job decoding

\* The MiningJob built at main.rs:419-437 from the params of mining.notify.
decode_job(params) ==
    IF array_len_or_0(params) < 9 THEN Err
    ELSE LET f(i) == as_str(json_index(params, i)) IN
        IF \E i \in {0, 1, 2, 3, 5, 6, 7} : ~f(i).ok THEN Err
        ELSE LET br == json_index(params, 4)
                 cj == json_index(params, 8) IN
            Ok([job_id |-> f(0).val,
                prevhash |-> f(1).val,
                coinb1 |-> f(2).val,
                coinb2 |-> f(3).val,
                merkle_branch |->
                    IF br.t = "arr"
                    THEN [i \in 1 .. Len(br.a) |->
                            IF br.a[i].t = "str" THEN br.a[i].v ELSE <<>>]
                    ELSE <<>>,
                version |-> f(5).val,
                nbits |-> f(6).val,
                ntime |-> f(7).val,
                clean_jobs |-> as_bool_or_false(cj)])

\* ------------------------------------------------ what the pool may send

PrevHash == [i \in 1 .. 64 |-> i % 16]

Coinb1 == <<0, 1, 0, 0>>

Coinb2 == <<15, 15>>

Version == <<2, 0, 0, 0, 0, 0, 0, 0>>

NTime == <<6, 5, 0, 0, 0, 0, 0, 1>>

Extranonce1Sample == <<10, 11, 12, 13>>

\* 207fffff, 1d00ffff and 02ffffff
NbitsEasy == <<2, 0, 7, 15, 15, 15, 15, 15>>

NbitsMain == <<1, 13, 0, 0, 15, 15, 15, 15>>

NbitsSmallExponent == <<0, 2, 15, 15, 15, 15, 15, 15>>

NotifyParams(job_id, coinb1, branch, version, nbits, clean) ==
    JArr(<<job_id, JStr(PrevHash), JStr(coinb1), JStr(Coinb2), JArr(branch),
           JStr(version), JStr(nbits), JStr(NTime), JBool(clean)>>)

\* Two merkle branch entries of 32 bytes.
BranchA == [i \in 1 .. 64 |-> (3 * i) % 16]

BranchB == [i \in 1 .. 64 |-> (5 * i + 1) % 16]

\* Two jobs the session can search.
GoodParams ==
    { NotifyParams(JStr(<<1>>), Coinb1, <<>>, Version, NbitsEasy, FALSE),
      NotifyParams(JStr(<<2>>), Coinb1, <<JStr(BranchA), JStr(BranchB)>>,
                   Version, NbitsMain, TRUE) }

\* Jobs that fail: too few params, a job_id that is no string, an exponent
\* below 3, a coinb1 and a merkle branch entry that are no hex, and a version
\* that is no hex (which fails when the first header is built).
BadParams ==
    { JArr(<<JStr(<<3>>), JStr(PrevHash)>>),
      NotifyParams(JNum(4), Coinb1, <<>>, Version, NbitsEasy, FALSE),
      NotifyParams(JStr(<<5>>), Coinb1, <<>>, Version, NbitsSmallExponent, FALSE),
      NotifyParams(JStr(<<6>>), <<0, NonHex>>, <<>>, Version, NbitsEasy, FALSE),
      NotifyParams(JStr(<<7>>), Coinb1, <<>>, <<NonHex>>, NbitsEasy, FALSE),
      NotifyParams(JStr(<<8>>), Coinb1, <<JStr(<<NonHex, 0>>)>>, Version,
                   NbitsEasy, FALSE) }

\* The params array with the element at position i (from 0) replaced.
ReplaceAt(params, i, val) == JArr([params.a EXCEPT ![i + 1] = val])

\* A job whose nbits has an exponent below 3, with clean_jobs = true.
SmallExponentParams ==
    NotifyParams(JStr(<<9>>), Coinb1, <<JStr(BranchA)>>, Version,
                 NbitsSmallExponent, TRUE)

\* Params that are no well-formed job: null, eight elements, and a number at
\* each of the positions that must hold a string.
MalformedParams ==
    { JNull,
      JArr(SubSeq(NotifyParams(JStr(<<1>>), Coinb1, <<>>, Version, NbitsEasy,
                               FALSE).a, 1, 8)) }
    \cup { ReplaceAt(NotifyParams(JStr(<<1>>), Coinb1, <<>>, Version, NbitsEasy,
                                  FALSE), i, JNum(0)) : i \in {1, 2, 3, 5, 6, 7} }

\* Params whose ninth element is no boolean, whose fifth is no list, and
\* whose fifth is a list with an element that is no string.
LenientParams ==
    { ReplaceAt(SmallExponentParams, 8, JNum(1)),
      ReplaceAt(SmallExponentParams, 4, JStr(BranchA)),
      ReplaceAt(SmallExponentParams, 4, JArr(<<JNum(1)>>)) }

NotifyLine(params) == <<TOpen, Tok("params", params), TNotify, TClose, TNl>>

SubscribeLine(result) == <<TOpen, Tok("result", result), TClose, TNl>>

\* The extranonce2 size a pool declares; ckpool declares 8.
Extranonce2SizeSample == 8

GoodSubscribeResult ==
    JArr(<<JArr(<<>>), JStr(Extranonce1Sample), JNum(Extranonce2SizeSample)>>)

\* A result that carries an extranonce1 and no extranonce2 size; its
\* extranonce1 has an odd number of hex digits.
ShortSubscribeResult == JArr(<<JArr(<<>>), JStr(<<10, 11, 12>>)>>)

\* One read that holds the subscribe reply and, after it, the mining.notify
\* line of the first good job.
SubscribeWithJob ==
    SubscribeLine(GoodSubscribeResult)
        \o NotifyLine(NotifyParams(JStr(<<1>>), Coinb1, <<>>, Version,
                                   NbitsEasy, FALSE))

\* What one read may return after mining.subscribe was written.
SubscribeChunks ==
    { SubscribeLine(GoodSubscribeResult),
      SubscribeWithJob,
      SubscribeLine(ShortSubscribeResult),
      SubscribeLine(JArr(<<JArr(<<>>)>>)),
      SubscribeLine(JArr(<<JArr(<<>>), JNum(1), JNum(Extranonce2SizeSample)>>)),
      <<TOpen, Tok("params", JArr(<<>>)), TClose, TNl>>,
      <<TOpen, TClose, TNl>>,
      <<TJunk, TNl>>,
      <<>> }

\* A line that is no job: the reply to mining.authorize.
AuthorizeReply == <<TOpen, Tok("result", JBool(TRUE)), TClose, TNl>>

\* What a read returns when the transport splits a mining.notify line: the
\* first good job's line up to and including the method name, and the two
\* parts of a line that is split before the method name.
JobFragments ==
    { SubSeq(NotifyLine(NotifyParams(JStr(<<1>>), Coinb1, <<>>, Version,
                                     NbitsEasy, FALSE)), 1, 3),
      SubSeq(NotifyLine(SmallExponentParams), 1, 2),
      SubSeq(NotifyLine(SmallExponentParams), 3, 5) }

\* What one read may return while the session waits for its job; the empty
\* chunk is the zero-byte read of a closed connection.
JobChunks ==
    { NotifyLine(p) :
        p \in GoodParams \cup BadParams \cup MalformedParams \cup LenientParams }
    \cup JobFragments
    \cup { AuthorizeReply, <<TOpen, TNotify>>, <<>> }

\* At most this many tokens are accumulated in response_data before the job
\* line arrives.
MaxBuffered == 4

\* Digests of block headers the search may meet: one equal to the target of
\* 1d00ffff (and below that of 207fffff), and one above both.
HashLow == [i \in 0 .. 31 |-> IF i \in {4, 5} THEN 255 ELSE 0]

HashHigh == [i \in 0 .. 31 |-> 255]

HashSamples == {HashLow, HashHigh}

\* rng.gen() of the four extranonce2 bytes
Extranonce2Samples == {<<222, 173, 190, 239>>}

\* A coinbase hash for the harness of the merkle fold: 32 bytes.
CoinbaseHashSample == [i \in 1 .. 32 |-> i]

\* ------------------------------------------------------------------ state

VARIABLES
    config,         \* the MiningConfig behind the Arc<Mutex<..>>
    lock,           \* who holds the mutex: "free", "miner" or "listener"
    listener,       \* new_block_listener: its position and locals
    miner,          \* main's loop and bitcoin_miner: position and locals
    wire,           \* the messages written to the pool on the current connection
    oracle,         \* the double SHA-256 of the current job's header, per nonce
    pool_pushed,    \* the pool wrote a clean_jobs = true job during the search
    max_reading,    \* history: the largest height the source gave the listener
    hashed_k,       \* history: headers hashed for the current job, mod 2^NonceBits
    last_hashed,    \* history: the nonce of the last header hashed for the job
    hist,           \* history: what the job saw of current_height (see NoHist)
    codec           \* the harness that applies the pure helpers

vars == <<config, lock, listener, miner, wire, oracle, pool_pushed,
          max_reading, hashed_k, last_hashed, hist, codec>>

None == Err

Some(v) == Ok(v)

Address == "bc1qexampleaddress"

NoOracle == [n \in Nonces |-> None]

\* What is remembered about a job and current_height: the value current_height
\* had when the job's starting height was recorded (until the job's first
\* height check), the headers hashed since the job's last height check, and
\* the headers hashed for the job while current_height was above the starting
\* height; and about the wait for the job: the number of tokens the reads of
\* the wait returned, and whether one of them was the zero-byte read of a
\* closed connection.
NoHist ==
    [height_at_start |-> None, since_check |-> 0, stale_hashed |-> 0,
     received |-> 0, closed |-> FALSE]

\* bitcoin_miner's locals before any of them is bound.
FreshLocals ==
    [pc |-> "main_loop",
     quiet_mode |-> FALSE,
     address |-> "",
     buffer |-> <<>>,
     extranonce1 |-> None,
     extranonce2_size |-> 0,
     response_data |-> <<>>,
     mining_job |-> None,
     target |-> None,
     extranonce2 |-> None,
     merkle_root_hex |-> None,
     work_on |-> None,
     nonce_counter |-> 0,
     batch_i |-> 0,
     nonce_hex |-> None,
     hash_bytes |-> None,
     result |-> "none"]

CodecIdle ==
    [pc |-> "idle", nbits |-> <<>>, hash |-> Zero32, target |-> Zero32,
     fields |-> <<>>, coinbase_hash |-> <<>>, merkle_branch |-> <<>>,
     out_target |-> None, out_meets |-> None, out_header |-> None,
     out_merkle_root |-> None]

\* MiningConfig::new (main.rs:66-73) and the spawn of the listener (main.rs:701).
Init ==
    /\ config \in [address : {Address}, current_height : {0},
                   quiet_mode : {FALSE}, telegram : BOOLEAN]
    /\ lock = "free"
    /\ listener = [pc |-> "read", current_height |-> 0, result |-> None]
    /\ miner = FreshLocals
    /\ wire = <<>>
    /\ oracle = NoOracle
    /\ pool_pushed = FALSE
    /\ max_reading = 0
    /\ hashed_k = 0
    /\ last_hashed = None
    /\ hist = NoHist
    /\ codec = CodecIdle

\* -------------------------------------------------------- new_block_listener

Max(a, b) == IF a >= b THEN a ELSE b

\* main.rs:601-604: the listener's copy of current_height, read under the lock.
ListenerRead ==
    /\ listener.pc = "read"
    /\ lock = "free"
    /\ listener' = [listener EXCEPT !.pc = "fetch",
                                    !.current_height = config.current_height]
    /\ UNCHANGED <<config, lock, miner, wire, oracle, pool_pushed, max_reading,
                   hashed_k, last_hashed, hist, codec>>

\* main.rs:606, get_current_block_height (main.rs:205-211): any height, 0 when
\* the reply has no integer "height".
ListenerFetchOk ==
    /\ listener.pc = "fetch"
    /\ \E h \in Heights :
        /\ listener' = [listener EXCEPT !.pc = "match", !.result = Some(h)]
        /\ max_reading' = Max(max_reading, h)
    /\ UNCHANGED <<config, lock, miner, wire, oracle, pool_pushed,
                   hashed_k, last_hashed, hist, codec>>

\* main.rs:606: the request or the JSON decoding failed.
ListenerFetchErr ==
    /\ listener.pc = "fetch"
    /\ listener' = [listener EXCEPT !.pc = "match", !.result = None]
    /\ UNCHANGED <<config, lock, miner, wire, oracle, pool_pushed, max_reading,
                   hashed_k, last_hashed, hist, codec>>

\* A variant of the update that stores every reading it is given.
ListenerStoreAlways ==
    /\ listener.pc = "match"
    /\ listener.result.ok
    /\ lock = "free"
    /\ config' = [config EXCEPT !.current_height = listener.result.val]
    /\ listener' = [listener EXCEPT !.pc = "sleep"]
    /\ UNCHANGED <<lock, miner, wire, oracle, pool_pushed, max_reading,
                   hashed_k, last_hashed, hist, codec>>

\* main.rs:607-615: a reading above the listener's copy is stored under the lock.
ListenerUpdate ==
    /\ listener.pc = "match"
    /\ listener.result.ok
    /\ IF listener.result.val > listener.current_height
       THEN /\ lock = "free"
            /\ config' = [config EXCEPT !.current_height = listener.result.val]
       ELSE UNCHANGED config
    /\ listener' = [listener EXCEPT !.pc = "sleep"]
    /\ UNCHANGED <<lock, miner, wire, oracle, pool_pushed, max_reading,
                   hashed_k, last_hashed, hist, codec>>

\* A variant in which a failed fetch ends the listener and clears the height.
ListenerFailureStops ==
    /\ listener.pc = "match"
    /\ ~listener.result.ok
    /\ listener' = [listener EXCEPT !.pc = "stopped"]
    /\ config' = [config EXCEPT !.current_height = 0]
    /\ UNCHANGED <<lock, miner, wire, oracle, pool_pushed, max_reading,
                   hashed_k, last_hashed, hist, codec>>

\* main.rs:616-618: the failure is logged.
ListenerLogError ==
    /\ listener.pc = "match"
    /\ ~listener.result.ok
    /\ listener' = [listener EXCEPT !.pc = "sleep"]
    /\ UNCHANGED <<config, lock, miner, wire, oracle, pool_pushed, max_reading,
                   hashed_k, last_hashed, hist, codec>>

\* main.rs:621: the sleep between two polls ends; the result of the poll
\* goes out of scope.
ListenerSleep ==
    /\ listener.pc = "sleep"
    /\ listener' = [listener EXCEPT !.pc = "read", !.result = None]
    /\ UNCHANGED <<config, lock, miner, wire, oracle, pool_pushed, max_reading,
                   hashed_k, last_hashed, hist, codec>>

ListenerStep ==
    \/ ListenerRead
    \/ ListenerFetchOk
    \/ ListenerFetchErr
    \/ ListenerUpdate
    \/ ListenerLogError
    \/ ListenerSleep

\* ------------------------------------------------------ main, bitcoin_miner

\* A variant in which the locals of the session that ended are kept.
ReturnedKeepingLocals(ok) ==
    [miner EXCEPT !.pc = IF ok THEN "main_loop" ELSE "main_delay",
                  !.result = IF ok THEN "ok" ELSE "err"]

\* bitcoin_miner returns: its locals and its TcpStream are dropped.  Ok goes
\* straight back to the top of main's loop, Err through the restart delay
\* (main.rs:708-714); result is what main's `if let Err(e)` was given.
Returned(ok) ==
    [FreshLocals EXCEPT !.pc = IF ok THEN "main_loop" ELSE "main_delay",
                        !.result = IF ok THEN "ok" ELSE "err"]

Msg(method, id, params) == [method |-> method, id |-> id, params |-> params]

\* The steps of bitcoin_miner that await the network and end in `?`.
IoSteps == {"connect", "subscribe", "read_subscribe", "authorize", "read_job",
            "fetch_height", "submit", "read_reply"}

SearchSteps == {"check_height", "hash"}

\* A variant in which every session starts from a height of 0.
MainCallMinerResetsHeight ==
    /\ miner.pc = "main_loop"
    /\ lock = "free"
    /\ config' = [config EXCEPT !.current_height = 0]
    /\ miner' = [FreshLocals EXCEPT !.pc = "connect",
                                    !.quiet_mode = config.quiet_mode,
                                    !.address = config.address]
    /\ wire' = <<>>
    /\ oracle' = NoOracle
    /\ pool_pushed' = FALSE
    /\ hashed_k' = 0
    /\ last_hashed' = None
    /\ hist' = NoHist
    /\ UNCHANGED <<lock, listener, max_reading, codec>>

\* main.rs:708-710 and 343-346: main calls bitcoin_miner, which copies
\* quiet_mode and address under the lock.
MainCallMiner ==
    /\ miner.pc = "main_loop"
    /\ lock = "free"
    /\ miner' = [FreshLocals EXCEPT !.pc = "connect",
                                    !.quiet_mode = config.quiet_mode,
                                    !.address = config.address]
    /\ wire' = <<>>
    /\ oracle' = NoOracle
    /\ pool_pushed' = FALSE
    /\ hashed_k' = 0
    /\ last_hashed' = None
    /\ hist' = NoHist
    /\ UNCHANGED <<config, lock, listener, max_reading, codec>>

\* main.rs:711-712: the error is logged and the restart delay elapses.
MainDelay ==
    /\ miner.pc = "main_delay"
    /\ miner' = [miner EXCEPT !.pc = "main_loop"]
    /\ UNCHANGED <<config, lock, listener, wire, oracle, pool_pushed,
                   max_reading, hashed_k, last_hashed, hist, codec>>

\* Any awaited network operation of bitcoin_miner fails: `?` returns the error.
IoError ==
    /\ miner.pc \in IoSteps
    /\ miner' = Returned(FALSE)
    /\ UNCHANGED <<config, lock, listener, wire, oracle, pool_pushed,
                   max_reading, hashed_k, last_hashed, hist, codec>>

\* main.rs:353
Connect ==
    /\ miner.pc = "connect"
    /\ miner' = [miner EXCEPT !.pc = "subscribe"]
    /\ UNCHANGED <<config, lock, listener, wire, oracle, pool_pushed,
                   max_reading, hashed_k, last_hashed, hist, codec>>

\* A variant that authorizes before the subscribe reply was read.
SendSubscribeThenAuthorize ==
    /\ miner.pc = "subscribe"
    /\ wire' = wire \o <<Msg("mining.subscribe", 1, <<>>),
                         Msg("mining.authorize", 2, <<miner.address, "password">>)>>
    /\ miner' = [miner EXCEPT !.pc = "read_subscribe"]
    /\ UNCHANGED <<config, lock, listener, oracle, pool_pushed,
                   max_reading, hashed_k, last_hashed, hist, codec>>

\* main.rs:359-364
SendSubscribe ==
    /\ miner.pc = "subscribe"
    /\ wire' = Append(wire, Msg("mining.subscribe", 1, <<>>))
    /\ miner' = [miner EXCEPT !.pc = "read_subscribe"]
    /\ UNCHANGED <<config, lock, listener, oracle, pool_pushed,
                   max_reading, hashed_k, last_hashed, hist, codec>>

\* main.rs:369-370: one read of the pool's reply into the buffer.
ReadSubscribe ==
    /\ miner.pc = "read_subscribe"
    /\ \E chunk \in SubscribeChunks :
        miner' = [miner EXCEPT !.pc = "parse_subscribe", !.buffer = chunk]
    /\ UNCHANGED <<config, lock, listener, wire, oracle, pool_pushed,
                   max_reading, hashed_k, last_hashed, hist, codec>>

\* A variant that fails when the result carries no extranonce2 size.
ParseSubscribeNeedsSize ==
    /\ miner.pc = "parse_subscribe"
    /\ LET response_data == json_from_str(split_lines(miner.buffer)[1])
           result == json_member(response_data.val, "result")
           extranonce1 == as_str(json_index(result, 1))
       IN  IF ~response_data.ok THEN miner' = Returned(FALSE)
           ELSE IF ~extranonce1.ok THEN miner' = Returned(FALSE)
           ELSE IF json_index(result, 2).t # "num" THEN miner' = Returned(FALSE)
           ELSE miner' = [miner EXCEPT
                    !.pc = "authorize",
                    !.extranonce1 = Some(extranonce1.val),
                    !.extranonce2_size = as_u64_or_0(json_index(result, 2))]
    /\ UNCHANGED <<config, lock, listener, wire, oracle, pool_pushed,
                   max_reading, hashed_k, last_hashed, hist, codec>>

\* main.rs:371-381: only the first line of what the read returned is used.
ParseSubscribe ==
    /\ miner.pc = "parse_subscribe"
    /\ LET response_data == json_from_str(split_lines(miner.buffer)[1])
           result == json_member(response_data.val, "result")
           extranonce1 == as_str(json_index(result, 1))
       IN  IF ~response_data.ok THEN miner' = Returned(FALSE)
           ELSE IF ~extranonce1.ok THEN miner' = Returned(FALSE)
           ELSE miner' = [miner EXCEPT
                    !.pc = "authorize",
                    !.extranonce1 = Some(extranonce1.val),
                    !.extranonce2_size = as_u64_or_0(json_index(result, 2))]
    /\ UNCHANGED <<config, lock, listener, wire, oracle, pool_pushed,
                   max_reading, hashed_k, last_hashed, hist, codec>>

\* main.rs:388-393
SendAuthorize ==
    /\ miner.pc = "authorize"
    /\ wire' = Append(wire, Msg("mining.authorize", 2, <<miner.address, "password">>))
    /\ miner' = [miner EXCEPT !.pc = "read_job"]
    /\ UNCHANGED <<config, lock, listener, oracle, pool_pushed,
                   max_reading, hashed_k, last_hashed, hist, codec>>

\* A variant of the read loop that reads on after a zero-byte read.
ReadJobIgnoresClose ==
    /\ miner.pc = "read_job"
    /\ \E chunk \in JobChunks :
        /\ hist' = [hist EXCEPT !.received = @ + Len(chunk),
                                !.closed = (Len(chunk) = 0)]
        /\ LET data == miner.response_data \o chunk IN
            IF contains_notify(data)
            THEN miner' = [miner EXCEPT !.pc = "decode_job", !.buffer = chunk,
                                        !.response_data = data]
            ELSE /\ Len(data) <= MaxBuffered
                 /\ miner' = [miner EXCEPT !.buffer = chunk,
                                           !.response_data = data]
    /\ UNCHANGED <<config, lock, listener, wire, oracle, pool_pushed,
                   max_reading, hashed_k, last_hashed, codec>>

\* main.rs:400-410: one iteration of the read loop.
ReadJob ==
    /\ miner.pc = "read_job"
    /\ \E chunk \in JobChunks :
        /\ hist' = [hist EXCEPT !.received = @ + Len(chunk),
                                !.closed = (Len(chunk) = 0)]
        /\ IF Len(chunk) = 0 THEN miner' = Returned(FALSE)
           ELSE LET data == miner.response_data \o chunk IN
            IF contains_notify(data)
            THEN miner' = [miner EXCEPT !.pc = "decode_job", !.buffer = chunk,
                                        !.response_data = data]
            ELSE /\ Len(data) <= MaxBuffered
                 /\ miner' = [miner EXCEPT !.buffer = chunk,
                                           !.response_data = data]
    /\ UNCHANGED <<config, lock, listener, wire, oracle, pool_pushed,
                   max_reading, hashed_k, last_hashed, codec>>

\* main.rs:412-437
DecodeJob ==
    /\ miner.pc = "decode_job"
    /\ LET lines == split_lines(miner.response_data)
           job_line == lines[CHOOSE i \in 1 .. Len(lines) :
                                /\ contains_notify(lines[i])
                                /\ \A j \in 1 .. (i - 1) : ~contains_notify(lines[j])]
           job_data == json_from_str(job_line)
           mining_job == decode_job(json_member(job_data.val, "params"))
       IN  IF ~job_data.ok THEN miner' = Returned(FALSE)
           ELSE IF ~mining_job.ok THEN miner' = Returned(FALSE)
           ELSE miner' = [miner EXCEPT !.pc = "target",
                                       !.mining_job = Some(mining_job.val)]
    /\ UNCHANGED <<config, lock, listener, wire, oracle, pool_pushed,
                   max_reading, hashed_k, last_hashed, hist, codec>>

\* main.rs:439-440
ComputeTarget ==
    /\ miner.pc = "target"
    /\ LET target == calculate_target(miner.mining_job.val.nbits) IN
        IF ~target.ok THEN miner' = Returned(FALSE)
        ELSE miner' = [miner EXCEPT !.pc = "coinbase", !.target = Some(target.val)]
    /\ UNCHANGED <<config, lock, listener, wire, oracle, pool_pushed,
                   max_reading, hashed_k, last_hashed, hist, codec>>

\* main.rs:442-465: extranonce2, the coinbase and the merkle root.
BuildCoinbase ==
    /\ miner.pc = "coinbase"
    /\ \E extranonce2_bytes \in Extranonce2Samples :
        LET job == miner.mining_job.val
            extranonce2 == pad_left(hex_encode(extranonce2_bytes), 8)
            coinbase_hex == job.coinb1 \o miner.extranonce1.val \o extranonce2
                            \o job.coinb2
            coinbase_bytes == hex_decode(coinbase_hex)
            coinbase_hash == double_sha256(coinbase_bytes.val)
            merkle_root == merkle_fold(coinbase_hash, job.merkle_branch, 1)
        IN  IF ~coinbase_bytes.ok THEN miner' = Returned(FALSE)
            ELSE IF ~merkle_root.ok THEN miner' = Returned(FALSE)
            ELSE miner' = [miner EXCEPT
                    !.pc = "fetch_height",
                    !.extranonce2 = Some(extranonce2),
                    !.merkle_root_hex =
                        Some(reverse_hex_bytes(hex_encode(merkle_root.val)))]
    /\ UNCHANGED <<config, lock, listener, wire, oracle, pool_pushed,
                   max_reading, hashed_k, last_hashed, hist, codec>>

\* main.rs:467-478: the session's own reading of the network height.
FetchInitialHeight ==
    /\ miner.pc = "fetch_height"
    /\ \E initial_height \in Heights :
        miner' = [miner EXCEPT !.pc = "check_height",
                               !.work_on = Some(initial_height),
                               !.nonce_counter = 0]
    /\ hist' = [hist EXCEPT !.height_at_start = Some(config.current_height)]
    /\ UNCHANGED <<config, lock, listener, wire, oracle, pool_pushed,
                   max_reading, hashed_k, last_hashed, codec>>

\* A variant of the height check that never abandons the job.
CheckHeightNeverBreaks ==
    /\ miner.pc = "check_height"
    /\ lock = "free"
    /\ miner' = [miner EXCEPT !.pc = "hash", !.batch_i = 0]
    /\ hist' = [hist EXCEPT !.height_at_start = None, !.since_check = 0]
    /\ UNCHANGED <<config, lock, listener, wire, oracle, pool_pushed,
                   max_reading, hashed_k, last_hashed, codec>>

\* main.rs:480-495: the height check at the top of the search loop; the break
\* leaves the loop and bitcoin_miner returns Ok (main.rs:595).
CheckHeight ==
    /\ miner.pc = "check_height"
    /\ lock = "free"
    /\ IF config.current_height > miner.work_on.val
       THEN miner' = Returned(TRUE)
       ELSE miner' = [miner EXCEPT !.pc = "hash", !.batch_i = 0]
    /\ hist' = [hist EXCEPT !.height_at_start = None, !.since_check = 0]
    /\ UNCHANGED <<config, lock, listener, wire, oracle, pool_pushed,
                   max_reading, hashed_k, last_hashed, codec>>

\* A variant with saturating_add in place of wrapping_add.
next_nonce_saturating(c) == IF c + 1 >= NonceModulus THEN c ELSE c + 1

\* The nonce tried after counter value c: wrapping_add(1) first, then use.
next_nonce(c) == (c + 1) % NonceModulus

\* A variant with one iteration more in every batch.
after_miss_late(m) ==
    IF m.batch_i >= HASHES_PER_BATCH
    THEN [m EXCEPT !.pc = "check_height", !.batch_i = 0]
    ELSE [m EXCEPT !.batch_i = m.batch_i + 1]

\* What a nonce that fails the target does to the loop: the next iteration
\* of the batch, or, after the last one, the next height check (the hash-rate
\* log of main.rs:582-592 changes nothing the search depends on).
after_miss(m) ==
    IF m.batch_i + 1 >= HASHES_PER_BATCH
    THEN [m EXCEPT !.pc = "check_height", !.batch_i = 0]
    ELSE [m EXCEPT !.batch_i = m.batch_i + 1]

\* A variant that notes the solution and goes on with the batch.
after_hit_continue(m, nonce_hex, hash_bytes) ==
    [after_miss(m) EXCEPT !.nonce_hex = Some(nonce_hex),
                          !.hash_bytes = Some(hash_bytes)]

\* What a nonce that meets the target does: main.rs:513-514.
after_hit(m, nonce_hex, hash_bytes) ==
    [m EXCEPT !.pc = "found", !.nonce_hex = Some(nonce_hex),
              !.hash_bytes = Some(hash_bytes)]

\* main.rs:495-513: one iteration of the batch: the next nonce, its header,
\* the header's double SHA-256, the comparison with the target.
HashNonce ==
    /\ miner.pc = "hash"
    /\ LET job == miner.mining_job.val
           nonce_counter == next_nonce(miner.nonce_counter)
           nonce_hex == nonce_hex_of(nonce_counter)
           header_bytes == create_block_header(job.version, job.prevhash,
                               miner.merkle_root_hex.val, job.nbits, job.ntime,
                               nonce_hex)
       IN  IF ~header_bytes.ok
           THEN /\ miner' = Returned(FALSE)
                /\ UNCHANGED <<oracle, hashed_k, last_hashed, hist>>
           ELSE \E hash_bytes \in
                    (IF oracle[nonce_counter].ok THEN {oracle[nonce_counter].val}
                     ELSE HashSamples) :
                /\ oracle' = [oracle EXCEPT ![nonce_counter] = Some(hash_bytes)]
                /\ hashed_k' = (hashed_k + 1) % NonceModulus
                /\ last_hashed' = Some(nonce_counter)
                /\ hist' = [hist EXCEPT
                        !.since_check = IF @ > HASHES_PER_BATCH THEN @ ELSE @ + 1,
                        !.stale_hashed =
                            IF config.current_height <= miner.work_on.val
                               \/ @ > HASHES_PER_BATCH
                            THEN @ ELSE @ + 1]
                /\ LET m == [miner EXCEPT !.nonce_counter = nonce_counter] IN
                    IF hash_meets_target(hash_bytes, miner.target.val)
                    THEN miner' = after_hit(m, nonce_hex, hash_bytes)
                    ELSE miner' = after_miss(m)
    /\ UNCHANGED <<config, lock, listener, wire, pool_pushed, max_reading, codec>>

\* main.rs:514-537: the block is printed and appended to the found-block log;
\* a failure to write the log is only warned about.
LogBlockFound ==
    /\ miner.pc = "found"
    /\ miner' = [miner EXCEPT !.pc = "notify"]
    /\ UNCHANGED <<config, lock, listener, wire, oracle, pool_pushed,
                   max_reading, hashed_k, last_hashed, hist, codec>>

\* main.rs:540-555: the lock is taken; without a Telegram configuration the
\* block ends at once, with one the send is awaited while the guard lives.
NotifyLock ==
    /\ miner.pc = "notify"
    /\ lock = "free"
    /\ IF config.telegram
       THEN /\ lock' = "miner"
            /\ miner' = [miner EXCEPT !.pc = "telegram"]
       ELSE /\ UNCHANGED lock
            /\ miner' = [miner EXCEPT !.pc = "submit"]
    /\ UNCHANGED <<config, listener, wire, oracle, pool_pushed,
                   max_reading, hashed_k, last_hashed, hist, codec>>

\* main.rs:551-555: send_telegram_message returned (a failure is only warned
\* about) and the guard is dropped.
TelegramDone ==
    /\ miner.pc = "telegram"
    /\ lock' = "free"
    /\ miner' = [miner EXCEPT !.pc = "submit"]
    /\ UNCHANGED <<config, listener, wire, oracle, pool_pushed,
                   max_reading, hashed_k, last_hashed, hist, codec>>

\* A variant that writes the nonce before the ntime.
SendSubmitNonceFirst ==
    /\ miner.pc = "submit"
    /\ wire' = Append(wire, Msg("mining.submit", 1,
                    <<miner.address, miner.mining_job.val.job_id,
                      miner.extranonce2.val, miner.nonce_hex.val,
                      miner.mining_job.val.ntime>>))
    /\ miner' = [miner EXCEPT !.pc = "read_reply"]
    /\ UNCHANGED <<config, lock, listener, oracle, pool_pushed,
                   max_reading, hashed_k, last_hashed, hist, codec>>

\* main.rs:557-571
SendSubmit ==
    /\ miner.pc = "submit"
    /\ wire' = Append(wire, Msg("mining.submit", 1,
                    <<miner.address, miner.mining_job.val.job_id,
                      miner.extranonce2.val, miner.mining_job.val.ntime,
                      miner.nonce_hex.val>>))
    /\ miner' = [miner EXCEPT !.pc = "read_reply"]
    /\ UNCHANGED <<config, lock, listener, oracle, pool_pushed,
                   max_reading, hashed_k, last_hashed, hist, codec>>

\* What the pool may answer to mining.submit: accepted, rejected, anything.
SubmitReplies ==
    { <<TOpen, Tok("result", JBool(TRUE)), TClose, TNl>>,
      <<TOpen, Tok("result", JBool(FALSE)), TClose, TNl>>,
      <<TJunk>>,
      <<>> }

\* main.rs:573-578: one read; whatever the pool answered is printed, then Ok.
ReadReply ==
    /\ miner.pc = "read_reply"
    /\ \E response \in SubmitReplies : miner' = Returned(TRUE)
    /\ UNCHANGED <<config, lock, listener, wire, oracle, pool_pushed,
                   max_reading, hashed_k, last_hashed, hist, codec>>

\* The pool writes a new job with clean_jobs = true to the connection while
\* the search runs.  bitcoin_miner does not read the stream during the search.
PoolPushesCleanJob ==
    /\ miner.pc \in SearchSteps
    /\ ~pool_pushed
    /\ pool_pushed' = TRUE
    /\ UNCHANGED <<config, lock, listener, miner, wire, oracle,
                   max_reading, hashed_k, last_hashed, hist, codec>>

MinerStep ==
    \/ MainCallMiner
    \/ MainDelay
    \/ IoError
    \/ Connect
    \/ SendSubscribe
    \/ ReadSubscribe
    \/ ParseSubscribe
    \/ SendAuthorize
    \/ ReadJob
    \/ DecodeJob
    \/ ComputeTarget
    \/ BuildCoinbase
    \/ FetchInitialHeight
    \/ CheckHeight
    \/ HashNonce
    \/ LogBlockFound
    \/ NotifyLock
    \/ TelegramDone
    \/ SendSubmit
    \/ ReadReply

Next == MinerStep \/ ListenerStep \/ PoolPushesCleanJob

Spec == Init /\ [][Next]_vars

\* ------------------------------------------- the pure helpers, on their own

\* Exponent bytes tried: everything around the two limits 3 and 32, and 255.
MaxExponent == 40

ExponentInputs == (0 .. MaxExponent) \cup {255}

MantissaBytes == {0, 1, 255}

nbits_of(e, m1, m2, m3) == hex_encode(<<e, m1, m2, m3>>)

\* Well-formed 4-byte nbits, and three that are no 4-byte hex string.
NbitsInputs ==
    { nbits_of(e, m1, m2, m3) :
        e \in ExponentInputs, m1 \in MantissaBytes, m2 \in MantissaBytes,
        m3 \in MantissaBytes }
    \cup { <<1, 13, 0, 0, 15, 15>>,
           <<1, 13, 0, 0, 15, 15, 15, 15, 0, 0>>,
           <<1, 13, 0, 0, 15, 15, 15, NonHex>> }

\* 32-byte buffers that are one value everywhere but at one offset.
SparseBuffer(fill, p, b) == [i \in 0 .. 31 |-> IF i = p THEN b ELSE fill]

BufferInputs ==
    { SparseBuffer(fill, p, b) : fill \in {0, 255}, p \in 0 .. 31, b \in {0, 1, 255} }

\* Header fields of the canonical width, shorter, longer, of odd length and
\* with a character that is no hex digit.
VersionInputs ==
    { Version, <<2, 0>>, Version \o <<0, 0>>, <<1, 2, 3, 4, 5, 6, 7, 8, 9>>,
      <<NonHex>> }

PrevhashInputs == { PrevHash, SubSeq(PrevHash, 1, 62), PrevHash \o <<0, 0>> }

MerkleRootInputs == { hex_encode(CoinbaseHashSample), <<1, 2>> }

NbitsFieldInputs == { NbitsEasy, NbitsEasy \o <<1, 1>> }

NtimeInputs == { NTime, <<1>> }

NonceInputs == { nonce_hex_of(1), <<15, 15>>, nonce_hex_of(1) \o <<0, 0>> }

HeaderInputs ==
    VersionInputs \X PrevhashInputs \X MerkleRootInputs \X NbitsFieldInputs
    \X NtimeInputs \X NonceInputs

\* Merkle branches of up to three entries; an entry is one of two 32-byte
\* hex strings or a string that is no hex.
BranchEntries == { BranchA, BranchB, <<NonHex, 0>> }

BranchInputs ==
    { <<>> } \cup { <<a>> : a \in BranchEntries }
    \cup { <<a, b>> : a \in BranchEntries, b \in BranchEntries }
    \cup { <<a, b, c>> : a \in BranchEntries, b \in BranchEntries,
                         c \in BranchEntries }

CoinbaseHashInputs == { CoinbaseHashSample, double_sha256(<<0, 1>>) }

CodecInit ==
    /\ config = [address |-> Address, current_height |-> 0,
                 quiet_mode |-> FALSE, telegram |-> FALSE]
    /\ lock = "free"
    /\ listener = [pc |-> "read", current_height |-> 0, result |-> None]
    /\ miner = FreshLocals
    /\ wire = <<>>
    /\ oracle = NoOracle
    /\ pool_pushed = FALSE
    /\ max_reading = 0
    /\ hashed_k = 0
    /\ last_hashed = None
    /\ hist = NoHist
    /\ \/ \E nbits \in NbitsInputs :
            codec = [CodecIdle EXCEPT !.pc = "target", !.nbits = nbits]
       \/ \E hash \in BufferInputs, target \in BufferInputs :
            codec = [CodecIdle EXCEPT !.pc = "meets", !.hash = hash,
                                      !.target = target]
       \/ \E fields \in HeaderInputs :
            codec = [CodecIdle EXCEPT !.pc = "header", !.fields = fields]
       \/ \E coinbase_hash \in CoinbaseHashInputs, branch \in BranchInputs :
            codec = [CodecIdle EXCEPT !.pc = "merkle",
                                      !.coinbase_hash = coinbase_hash,
                                      !.merkle_branch = branch]

\* calculate_target applied to the input.
ApplyCalculateTarget ==
    /\ codec.pc = "target"
    /\ codec' = [codec EXCEPT !.pc = "target_done",
                              !.out_target = calculate_target(codec.nbits)]
    /\ UNCHANGED <<config, lock, listener, miner, wire, oracle, pool_pushed,
                   max_reading, hashed_k, last_hashed, hist>>

\* hash_meets_target applied to the input.
ApplyHashMeetsTarget ==
    /\ codec.pc = "meets"
    /\ codec' = [codec EXCEPT !.pc = "meets_done",
                              !.out_meets = Some(hash_meets_target(codec.hash,
                                                                   codec.target))]
    /\ UNCHANGED <<config, lock, listener, miner, wire, oracle, pool_pushed,
                   max_reading, hashed_k, last_hashed, hist>>

\* create_block_header applied to the input.
ApplyCreateBlockHeader ==
    /\ codec.pc = "header"
    /\ codec' = [codec EXCEPT
            !.pc = "header_done",
            !.out_header = create_block_header(codec.fields[1], codec.fields[2],
                               codec.fields[3], codec.fields[4], codec.fields[5],
                               codec.fields[6])]
    /\ UNCHANGED <<config, lock, listener, miner, wire, oracle, pool_pushed,
                   max_reading, hashed_k, last_hashed, hist>>

\* main.rs:455-465 and 500-507 applied to the input: the fold over the
\* branch, the reversal of the root's hex, and the header built with it.
ApplyMerkleRoot ==
    /\ codec.pc = "merkle"
    /\ LET merkle_root == merkle_fold(codec.coinbase_hash, codec.merkle_branch, 1)
           merkle_root_hex == reverse_hex_bytes(hex_encode(merkle_root.val))
       IN  codec' = [codec EXCEPT
                !.pc = "merkle_done",
                !.out_merkle_root = merkle_root,
                !.out_header =
                    IF merkle_root.ok
                    THEN create_block_header(Version, PrevHash, merkle_root_hex,
                                             NbitsEasy, NTime, nonce_hex_of(1))
                    ELSE None]
    /\ UNCHANGED <<config, lock, listener, miner, wire, oracle, pool_pushed,
                   max_reading, hashed_k, last_hashed, hist>>

CodecNext ==
    \/ ApplyCalculateTarget
    \/ ApplyHashMeetsTarget
    \/ ApplyCreateBlockHeader
    \/ ApplyMerkleRoot

CodecSpec == CodecInit /\ [][CodecNext]_vars

\* --------------------------------------------------------------- C9

\* The input of the harness is a 4-byte nbits (eight hex digits).
FourByteNbits == Len(codec.nbits) = 8 /\ hex_decode(codec.nbits).ok

NbitsByte(k) == hex_decode(codec.nbits).val[k]

\* The buffer that holds m1, m2, m3 at offsets first, first + 1, first + 2 and
\* zero everywhere else.
MantissaAt(first) ==
    [i \in 0 .. 31 |->
        IF i = first THEN NbitsByte(2)
        ELSE IF i = first + 1 THEN NbitsByte(3)
        ELSE IF i = first + 2 THEN NbitsByte(4)
        ELSE 0]

\* C9 as stated: calculate_target fails for an exponent below 3 or above 32,
\* and for an exponent e in 3..32 returns the buffer with the mantissa bytes
\* at offsets 35-e, 36-e, 37-e and zero elsewhere.
C9_AsStated ==
    (codec.pc = "target_done" /\ FourByteNbits) =>
        LET e == NbitsByte(1) IN
        /\ (e < 3 \/ e > 32) => ~codec.out_target.ok
        /\ (e >= 3 /\ e <= 32) =>
            /\ codec.out_target.ok
            /\ codec.out_target.val = MantissaAt(35 - e)

\* C9 (amended): calculate_target fails for an exponent below 3 or above 32
\* (so for 0x02 and 0x21); for an exponent e in 3..32 it returns the 32-byte
\* buffer with m1, m2, m3 at offsets 32-e, 33-e, 34-e and zero elsewhere, all
\* three inside the buffer, the last one at the byte of weight 256^(e-3); for
\* 1d00ffff bytes 3..5 are 00, ff, ff and every other byte is zero.
C9_Target ==
    (codec.pc = "target_done" /\ FourByteNbits) =>
        LET e == NbitsByte(1) IN
        /\ (e < 3 \/ e > 32) => ~codec.out_target.ok
        /\ (e >= 3 /\ e <= 32) =>
            /\ codec.out_target.ok
            /\ DOMAIN codec.out_target.val = 0 .. 31
            /\ codec.out_target.val = MantissaAt(32 - e)
            /\ 32 - e >= 0 /\ 34 - e <= 31
            /\ codec.out_target.val[31 - (e - 3)] = NbitsByte(4)
        /\ codec.nbits = NbitsMain =>
            /\ codec.out_target.ok
            /\ \A i \in 0 .. 31 :
                codec.out_target.val[i] = IF i \in {4, 5} THEN 255 ELSE 0

\* C9's case: a mantissa with three non-zero bytes was placed for the largest
\* exponent, and 1d00ffff was decoded.
C9_Witness ==
    /\ codec.pc = "target_done"
    /\ codec.out_target.ok
    /\ \/ codec.nbits = nbits_of(32, 255, 1, 255)
       \/ codec.nbits = NbitsMain

\* --------------------------------------------------------------- C10

\* hash <= target as unsigned big-endian numbers, by schoolbook subtraction
\* target - hash from the least significant byte (offset 31): the borrow out
\* of offset i.  The difference is non-negative when no borrow is left.
RECURSIVE Borrow(_, _, _)
Borrow(hash, target, i) ==
    IF i > 31 THEN 0
    ELSE IF hash[i] + Borrow(hash, target, i + 1) > target[i] THEN 1 ELSE 0

BigEndianLeq(hash, target) == Borrow(hash, target, 0) = 0

\* C10: hash_meets_target is true exactly when hash <= target as big-endian
\* unsigned integers; equal buffers are accepted, and otherwise the first
\* offset at which the two differ decides.
C10_Meets ==
    codec.pc = "meets_done" =>
        /\ codec.out_meets.val = BigEndianLeq(codec.hash, codec.target)
        /\ codec.hash = codec.target => codec.out_meets.val
        /\ codec.hash # codec.target =>
            LET d == CHOOSE d \in 0 .. 31 :
                        /\ codec.hash[d] # codec.target[d]
                        /\ \A j \in 0 .. (d - 1) : codec.hash[j] = codec.target[j]
            IN codec.out_meets.val = (codec.hash[d] < codec.target[d])

\* C10's case: two equal buffers were compared and accepted, or two buffers
\* whose first difference is at the last offset.
C10_Witness ==
    /\ codec.pc = "meets_done"
    /\ \/ codec.hash = codec.target /\ codec.out_meets.val
       \/ /\ codec.hash[31] > codec.target[31]
          /\ \A j \in 0 .. 30 : codec.hash[j] = codec.target[j]
          /\ ~codec.out_meets.val

\* ------------------------------------------------------------ fairness

\* main's loop is never starved: the restart delay elapses and bitcoin_miner
\* is called again (tokio drives main's future; the lock it needs at
\* main.rs:344 is only ever held for single field accesses by the listener).
FairSpec == Spec /\ WF_vars(MainDelay) /\ WF_vars(MainCallMiner)

\* --------------------------------------------------------------- C1

\* C1: whatever the height source returns and however the listener and the
\* session interleave, current_height never decreases from one state to the
\* next, and once the listener has processed every reading it was given the
\* stored value is the largest of 0 and those readings.
C1_Monotonic ==
    /\ [][config'.current_height >= config.current_height]_vars
    /\ [](listener.pc # "match" => config.current_height = max_reading)

\* C1's case: a reading smaller than the stored height was processed while a
\* search was running, and the stored height is still the largest reading.
C1_Witness ==
    /\ listener.pc = "sleep"
    /\ listener.result.ok
    /\ listener.result.val < config.current_height
    /\ config.current_height = MaxHeight
    /\ miner.pc = "hash"

\* --------------------------------------------------------------- C2

HasSubmit == \E i \in 1 .. Len(wire) : wire[i].method = "mining.submit"

\* C2: a height check that reads a current_height above the job's starting
\* height ends the session at once: bitcoin_miner returns Ok to main with no
\* further header hashed, no solution and no mining.submit written, and the
\* only thing main then does is to start a new session.
C2_Abandon ==
    /\ [][(/\ miner.pc = "check_height"
           /\ miner' # miner
           /\ config.current_height > miner.work_on.val)
          => /\ miner' = Returned(TRUE)
             /\ miner'.pc = "main_loop"
             /\ ~miner.nonce_hex.ok
             /\ hashed_k' = hashed_k /\ oracle' = oracle
             /\ wire' = wire /\ ~HasSubmit]_vars
    /\ [][(miner.pc = "main_loop" /\ miner' # miner)
          => (miner'.pc = "connect" /\ wire' = <<>>)]_vars

\* C2's case: a job was abandoned between two batches, after headers had been
\* hashed for it, and control is back at the top of main's loop.
C2_Witness ==
    /\ miner.pc = "main_loop"
    /\ miner.result = "ok"
    /\ Len(wire) = 2
    /\ last_hashed.ok
    /\ config.current_height > 0

\* --------------------------------------------------------------- C3

AfterSolution == {"found", "notify", "telegram", "submit", "read_reply"}

\* The moves of the session once a solution exists: the found-block record,
\* the notification, the submit, the read of the reply, the return.
SolutionMoves ==
    { <<"found", "notify">>, <<"notify", "telegram">>, <<"notify", "submit">>,
      <<"telegram", "submit">>, <<"submit", "read_reply">>,
      <<"submit", "main_delay">>, <<"read_reply", "main_loop">>,
      <<"read_reply", "main_delay">> }

\* C3: a job yields at most one solution, the first nonce in iteration order
\* whose header digest meets the target: when a solution exists it is the last
\* nonce hashed, every other nonce hashed for the job missed the target, no
\* header is hashed afterwards, and the session only records the block,
\* notifies, submits, reads one reply and ends.
C3_FirstMatch ==
    /\ [](miner.nonce_hex.ok =>
            /\ miner.pc \in AfterSolution
            /\ last_hashed.ok
            /\ miner.nonce_hex.val = nonce_hex_of(last_hashed.val)
            /\ miner.nonce_counter = last_hashed.val
            /\ miner.hash_bytes.val = oracle[last_hashed.val].val
            /\ hash_meets_target(miner.hash_bytes.val, miner.target.val)
            /\ \A n \in Nonces :
                (n # last_hashed.val /\ oracle[n].ok)
                    => ~hash_meets_target(oracle[n].val, miner.target.val))
    /\ [][miner.nonce_hex.ok =>
            /\ hashed_k' = hashed_k /\ oracle' = oracle /\ last_hashed' = last_hashed
            /\ (miner' # miner => <<miner.pc, miner'.pc>> \in SolutionMoves)
            /\ (miner'.nonce_hex.ok => miner'.nonce_hex = miner.nonce_hex)]_vars
    /\ [](miner.pc \in SearchSteps =>
            \A n \in Nonces :
                oracle[n].ok => ~hash_meets_target(oracle[n].val, miner.target.val))

\* C3's case: the third header hashed for a job met the target after two
\* misses, and its solution was submitted.
C3_Witness ==
    /\ miner.pc = "read_reply"
    /\ miner.nonce_hex.ok
    /\ hashed_k = 3
    /\ HasSubmit

\* --------------------------------------------------------------- C4

\* C4 as stated: the k-th header hashed for a job, counting from 0, carries
\* nonce k mod 2^NonceBits; in particular the first one carries nonce 0.
C4_AsStated ==
    last_hashed.ok =>
        last_hashed.val = (hashed_k + NonceModulus - 1) % NonceModulus

\* C4 (amended): the counter starts at 0 and is incremented before it is
\* used, so the first header hashed for a job carries nonce 1, each further
\* one the previous nonce plus 1 modulo 2^NonceBits, and the k-th header,
\* counting from 0, carries nonce (k + 1) mod 2^NonceBits; nonce 0 is reached
\* only after the counter wrapped.
C4_NonceSequence ==
    /\ [](last_hashed.ok =>
            /\ last_hashed.val = hashed_k
            /\ miner.pc \in (SearchSteps \cup AfterSolution)
                    => miner.nonce_counter = last_hashed.val)
    /\ [](miner.pc \in SearchSteps /\ ~last_hashed.ok => miner.nonce_counter = 0)
    /\ [][(last_hashed' # last_hashed /\ last_hashed'.ok) =>
            last_hashed'.val = IF last_hashed.ok
                               THEN (last_hashed.val + 1) % NonceModulus
                               ELSE 1]_vars

\* C4's case: the counter wrapped: every nonce has been hashed once, nonce 0
\* last, and the search is at nonce 1 again.
C4_Witness ==
    /\ miner.pc \in SearchSteps
    /\ \A n \in Nonces : oracle[n].ok
    /\ last_hashed.ok /\ last_hashed.val = 1
    /\ hashed_k = 1

\* --------------------------------------------------------------- C5

MainPcs == {"main_loop", "main_delay"}

SessionPcs ==
    IoSteps \cup SearchSteps \cup AfterSolution
    \cup {"parse_subscribe", "decode_job", "target", "coinbase"}

\* C5: an error anywhere in a session ends the session with nothing of it
\* kept; main then waits the restart delay and starts a new session at the
\* connect, with fresh locals, an empty connection and a nonce counter of 0;
\* main's loop has no exit, and after every error a new session is started.
C5_Restart ==
    /\ [](miner.pc \in MainPcs \cup SessionPcs)
    /\ [][(miner'.result = "err" /\ miner.result # "err") =>
            (miner.pc \in SessionPcs /\ miner'.pc = "main_delay")]_vars
    /\ [](miner.pc = "main_delay" =>
            miner = [FreshLocals EXCEPT !.pc = "main_delay", !.result = "err"])
    /\ [][(miner.pc = "main_delay" /\ miner' # miner) =>
            miner' = [FreshLocals EXCEPT !.pc = "main_loop", !.result = "err"]]_vars
    /\ [](miner.pc = "connect" =>
            /\ miner = [FreshLocals EXCEPT !.pc = "connect",
                                           !.quiet_mode = config.quiet_mode,
                                           !.address = config.address]
            /\ wire = <<>> /\ oracle = NoOracle /\ ~last_hashed.ok)
    /\ (miner.pc = "main_delay" ~> miner.pc = "connect")

\* C5's case: a session that had authorized failed, the restart delay has
\* elapsed, and main is about to start the next session.
C5_Witness ==
    /\ miner.pc = "main_loop"
    /\ miner.result = "err"
    /\ Len(wire) >= 2

\* --------------------------------------------------------------- C6

\* C6: a failed poll changes nothing but the listener's position: the stored
\* height, the lock and the session are as before and the listener goes to
\* its sleep, from which it polls again; the listener has no final state; a
\* session that ends in an error changes nothing of the listener, which can
\* still take its next step.
C6_Isolation ==
    /\ [](listener.pc \in {"read", "fetch", "match", "sleep"})
    /\ [][(listener.pc = "match" /\ ~listener.result.ok /\ listener' # listener) =>
            /\ listener'.pc = "sleep"
            /\ config' = config /\ lock' = lock
            /\ miner' = miner /\ wire' = wire]_vars
    /\ [][(listener.pc = "sleep" /\ listener' # listener) =>
            listener'.pc = "read"]_vars
    /\ [][(miner'.result = "err" /\ miner.result # "err") =>
            (listener' = listener /\ config' = config /\ lock' = lock)]_vars
    /\ [](miner.pc \in MainPcs => ENABLED ListenerStep)

\* C6's case: a poll failed while a search was running; the height stored
\* before is still there and the search goes on.
C6_Witness ==
    /\ listener.pc = "sleep"
    /\ ~listener.result.ok
    /\ config.current_height > 0
    /\ miner.pc = "hash"

\* --------------------------------------------------------------- C7

Methods == [i \in 1 .. Len(wire) |-> wire[i].method]

Handshake == <<"mining.subscribe", "mining.authorize", "mining.submit">>

\* C7: the messages of a session are mining.subscribe, mining.authorize and
\* at most one mining.submit, in that order and one at a time; authorize is
\* written only after the subscribe reply gave extranonce1, the search runs
\* only on a decoded job, submit is written only for a nonce whose digest
\* met the target, and after the submit the session reads one reply and ends.
C7_Order ==
    /\ [](Len(wire) <= 3 /\ Methods = SubSeq(Handshake, 1, Len(wire)))
    /\ [][Len(wire') > Len(wire) =>
            /\ Len(wire') = Len(wire) + 1
            /\ Len(wire') = 1 => miner.pc = "subscribe"
            /\ Len(wire') = 2 =>
                (miner.pc = "authorize" /\ miner.extranonce1.ok
                 /\ miner'.extranonce1 = miner.extranonce1)
            /\ Len(wire') = 3 =>
                /\ miner.pc = "submit" /\ miner'.pc = "read_reply"
                /\ miner.nonce_hex.ok
                /\ hash_meets_target(miner.hash_bytes.val, miner.target.val)]_vars
    /\ [](miner.pc \in SearchSteps =>
            (miner.mining_job.ok /\ miner.target.ok /\ Len(wire) = 2))
    /\ [](miner.pc = "read_reply" <=> (miner.pc \in SessionPcs /\ Len(wire) = 3))
    /\ [][(miner.pc = "read_reply" /\ miner' # miner) =>
            (miner'.pc \in MainPcs /\ wire' = wire)]_vars

\* C7's case: a session ran from subscribe to submit and ended on the reply.
C7_Witness ==
    /\ miner.pc = "main_loop"
    /\ miner.result = "ok"
    /\ Len(wire) = 3

\* --------------------------------------------------------------- C8

\* C8 as stated: once the pool has sent a job with clean_jobs = true during
\* a search, no further header of the old job is hashed and nothing is
\* submitted for it.
C8_AsStated ==
    [][(pool_pushed /\ miner.pc \in SessionPcs) =>
        (hashed_k' = hashed_k /\ wire' = wire)]_vars

\* --------------------------------------------------------------- C11

\* The bytes of a header from offset `from`, `n` of them, as hex digits.
HeaderField(header, from, n) == hex_encode(SubSeq(header, from + 1, from + n))

\* C11 as stated: for any hex strings as fields, longer than the canonical
\* width included, create_block_header fails or returns exactly 80 bytes laid
\* out as version(4), prevhash(32), merkle_root(32), nbits(4), ntime(4),
\* nonce(4), each field padded to its width.
C11_AsStated ==
    (codec.pc = "header_done" /\ codec.out_header.ok) =>
        LET header == codec.out_header.val
            f == codec.fields IN
        /\ Len(header) = 80
        /\ HeaderField(header, 0, 4) = pad_left(f[1], 8)
        /\ HeaderField(header, 4, 32) = pad_right(f[2], 64)
        /\ HeaderField(header, 36, 32) = pad_right(f[3], 64)
        /\ HeaderField(header, 68, 4) = pad_left(f[4], 8)
        /\ HeaderField(header, 72, 4) = pad_left(f[5], 8)
        /\ HeaderField(header, 76, 4) = pad_left(f[6], 8)

\* --------------------------------------------------------------- C12

\* The root the claim describes for the first n entries of a branch: the
\* coinbase hash for none, else the double hash of the root of the first n - 1
\* entries followed by entry n.
RECURSIVE RootOfFirst(_, _, _)
RootOfFirst(coinbase_hash, branch, n) ==
    IF n = 0 THEN coinbase_hash
    ELSE double_sha256(RootOfFirst(coinbase_hash, branch, n - 1)
                       \o hex_decode(branch[n]).val)

\* C12: the merkle root is the left fold of the branch, in the order listed,
\* over the coinbase hash, each step the double hash of the accumulator
\* followed by the entry: the coinbase hash itself for an empty branch, the
\* double hash of coinbase hash and entry for one entry, a different
\* computation when two distinct entries change places; and the header
\* carries the root's 32 bytes in reverse order.
C12_MerkleFold ==
    codec.pc = "merkle_done" =>
        LET h == codec.coinbase_hash
            b == codec.merkle_branch
            out == codec.out_merkle_root IN
        /\ out.ok <=> \A i \in 1 .. Len(b) : hex_decode(b[i]).ok
        /\ out.ok =>
            /\ out.val = RootOfFirst(h, b, Len(b))
            /\ Len(b) = 0 => out.val = h
            /\ Len(b) = 1 => out.val = double_sha256(h \o hex_decode(b[1]).val)
            /\ (Len(b) = 2 /\ b[1] # b[2]) =>
                    /\ out.val = double_sha256(
                            double_sha256(h \o hex_decode(b[1]).val)
                            \o hex_decode(b[2]).val)
                    /\ out.val # RootOfFirst(h, <<b[2], b[1]>>, 2)
            /\ codec.out_header.ok
            /\ Len(codec.out_header.val) = 80
            /\ \A k \in 1 .. 32 : codec.out_header.val[36 + k] = out.val[33 - k]

\* C12's case: a branch of two distinct entries was folded.
C12_Witness ==
    /\ codec.pc = "merkle_done"
    /\ Len(codec.merkle_branch) = 2
    /\ codec.merkle_branch[1] # codec.merkle_branch[2]
    /\ codec.out_merkle_root.ok
    /\ codec.out_header.ok

\* --------------------------------------------------------------- C13

\* The first line of the accumulated text that holds mining.notify.
JobLineIn(data) ==
    LET lines == split_lines(data) IN
    lines[CHOOSE i \in 1 .. Len(lines) :
            /\ contains_notify(lines[i])
            /\ \A j \in 1 .. (i - 1) : ~contains_notify(lines[j])]

\* The params of that line.
ParamsIn(data) == json_member(json_from_str(JobLineIn(data)).val, "params")

\* Nine elements or more, with a string at positions 0, 1, 2, 3, 5, 6 and 7.
WellFormedJob(p) ==
    /\ p.t = "arr"
    /\ Len(p.a) >= 9
    /\ \A i \in {1, 2, 3, 4, 6, 7, 8} : p.a[i].t = "str"

\* C13: decoding the job fails, and the session ends in error with nothing
\* hashed, when params has fewer than nine elements or one of the positions
\* 0, 1, 2, 3, 5, 6, 7 holds no string; otherwise it succeeds, with the
\* strings of those positions, with clean_jobs = false when the ninth element
\* is no boolean, and with an empty merkle branch when the fifth is no list.
C13_Decode ==
    /\ [][(miner.pc = "decode_job" /\ miner' # miner
            /\ json_from_str(JobLineIn(miner.response_data)).ok) =>
            LET p == ParamsIn(miner.response_data) IN
            IF WellFormedJob(p)
            THEN /\ miner'.pc = "target"
                 /\ miner'.mining_job.ok
                 /\ LET job == miner'.mining_job.val IN
                    /\ job.job_id = p.a[1].v
                    /\ job.prevhash = p.a[2].v
                    /\ job.coinb1 = p.a[3].v
                    /\ job.coinb2 = p.a[4].v
                    /\ job.version = p.a[6].v
                    /\ job.nbits = p.a[7].v
                    /\ job.ntime = p.a[8].v
                    /\ job.clean_jobs = (p.a[9].t = "bool" /\ p.a[9].v = <<1>>)
                    /\ p.a[5].t # "arr" => job.merkle_branch = <<>>
                    /\ p.a[5].t = "arr" => Len(job.merkle_branch) = Len(p.a[5].a)
            ELSE /\ miner'.pc = "main_delay"
                 /\ miner'.result = "err"
                 /\ hashed_k' = 0
                 /\ ~last_hashed'.ok]_vars
    /\ []((miner.pc \in SessionPcs /\ ~miner.mining_job.ok) =>
            (hashed_k = 0 /\ ~last_hashed.ok))

\* C13's case: a job was decoded from params whose ninth element is no
\* boolean, as a job with clean_jobs = false.
C13_Witness ==
    /\ miner.pc = "target"
    /\ miner.mining_job.ok
    /\ ParamsIn(miner.response_data).a[9].t = "num"
    /\ miner.mining_job.val.clean_jobs = FALSE

\* --------------------------------------------------------------- C14

\* The steps of the session during which a network operation or a hash
\* computation is in progress; "telegram" is the awaited notification send.
BusySteps == IoSteps \cup {"telegram", "hash"}

\* C14 as stated: in no reachable state does the session or the listener
\* hold the lock while a network operation (height fetch, pool read or
\* write, notification delivery) or a hash computation is in progress.
C14_AsStated ==
    /\ lock = "miner" => miner.pc \notin BusySteps
    /\ lock = "listener" => listener.pc # "fetch"

\* --------------------------------------------------------------- C15

\* C15: the height check, the one place where the search takes the lock,
\* comes once before each batch of HASHES_PER_BATCH nonces and never inside
\* a batch: at a height check the headers hashed since the last one number
\* 0 (the job's first check) or a whole batch, and inside a batch they number
\* the batch's iterations so far.  So once current_height is above the job's
\* starting height, at most one batch of further headers is hashed for the
\* job.
C15_Batch ==
    /\ hist.stale_hashed <= HASHES_PER_BATCH
    /\ hist.since_check <= HASHES_PER_BATCH
    /\ miner.pc = "hash" =>
        (hist.since_check = miner.batch_i /\ miner.batch_i < HASHES_PER_BATCH)
    /\ miner.pc = "check_height" =>
        hist.since_check = (IF last_hashed.ok THEN HASHES_PER_BATCH ELSE 0)

\* C15's case: the listener raised current_height right after a height
\* check, a whole batch was hashed since, and the search is at its next check.
C15_Witness ==
    /\ miner.pc = "check_height"
    /\ config.current_height > miner.work_on.val
    /\ hist.stale_hashed = HASHES_PER_BATCH
    /\ hist.since_check = HASHES_PER_BATCH

\* --------------------------------------------------------------- C16

\* C16 as stated: whatever the height source returns, a job is never
\* abandoned at its very first height check because of a value the listener
\* stored before the job's starting height was recorded: when the first
\* check abandons the job, current_height is above the value it had when the
\* starting height was recorded.
C16_AsStated ==
    [][(miner.pc = "check_height" /\ ~last_hashed.ok
        /\ hist.height_at_start.ok /\ miner'.pc = "main_loop") =>
        config.current_height > hist.height_at_start.val]_vars

\* --------------------------------------------------------------- C17

\* C17: no step of main or of a session changes the configuration; its
\* address, quiet_mode and Telegram settings never change; current_height
\* is written only by the listener, as the reading it just fetched; so a
\* restart of the session leaves current_height as it was.
C17_Frame ==
    /\ [][miner' # miner => config' = config]_vars
    /\ [][/\ config'.address = config.address
          /\ config'.quiet_mode = config.quiet_mode
          /\ config'.telegram = config.telegram]_vars
    /\ [][config'.current_height # config.current_height =>
            /\ listener.pc = "match"
            /\ listener.result.ok
            /\ listener'.pc = "sleep"
            /\ config'.current_height = listener.result.val
            /\ miner' = miner]_vars
    /\ [][(miner.pc = "main_loop" /\ miner'.pc = "connect") =>
            config'.current_height = config.current_height]_vars

\* C17's case: sessions started, failed and ended while current_height holds
\* the largest height the listener stored, and main is about to start the next.
C17_Witness ==
    /\ miner.pc = "main_loop"
    /\ miner.result = "err"
    /\ config.current_height = MaxHeight

\* --------------------------------------------------------------- C18

\* The merkle root, as the header carries it, of the coinbase made of the
\* job's coinb1 and coinb2, an extranonce1 and an extranonce2.
RootHexWith(job, extranonce1, extranonce2) ==
    LET coinbase == hex_decode(job.coinb1 \o extranonce1 \o extranonce2
                               \o job.coinb2).val
    IN  reverse_hex_bytes(hex_encode(
            RootOfFirst(double_sha256(coinbase), job.merkle_branch,
                        Len(job.merkle_branch))))

\* C18: the params of mining.submit are, in order, the address, the job_id,
\* the extranonce2, the ntime and the nonce, where job_id and ntime are those
\* of the job that was searched, the nonce is the one whose header hash met
\* the target, and the extranonce2 is the one in the coinbase the header's
\* merkle root was computed from; extranonce1 and extranonce2 do not change
\* during a session.
C18_Submit ==
    /\ [](miner.pc = "read_reply" =>
            LET submit == wire[Len(wire)]
                notified == ParamsIn(miner.response_data).a
                job == miner.mining_job.val IN
            /\ submit.method = "mining.submit"
            /\ Len(submit.params) = 5
            /\ submit.params[1] = config.address
            /\ submit.params[2] = notified[1].v
            /\ submit.params[4] = notified[8].v
            /\ last_hashed.ok
            /\ submit.params[5] = nonce_hex_of(last_hashed.val)
            /\ hash_meets_target(oracle[last_hashed.val].val,
                                 calculate_target(notified[7].v).val)
            /\ submit.params[3] = miner.extranonce2.val
            /\ miner.merkle_root_hex.val =
                    RootHexWith(job, miner.extranonce1.val, submit.params[3]))
    /\ [][(miner.extranonce1.ok /\ miner'.pc \in SessionPcs) =>
            miner'.extranonce1 = miner.extranonce1]_vars
    /\ [][(miner.extranonce2.ok /\ miner'.pc \in SessionPcs) =>
            miner'.extranonce2 = miner.extranonce2]_vars

\* C18's case: the solution of a job with a merkle branch was submitted.
C18_Witness ==
    /\ miner.pc = "read_reply"
    /\ Len(wire) = 3
    /\ wire[3].method = "mining.submit"
    /\ Len(miner.mining_job.val.merkle_branch) = 2
    /\ last_hashed.ok

\* --------------------------------------------------------------- C19

\* C19 as stated: the extranonce2 put into the coinbase, and sent in
\* mining.submit, has exactly as many bytes as the pool declared in its
\* subscribe reply.
C19_AsStated ==
    /\ miner.extranonce2.ok =>
        Len(miner.extranonce2.val) = 2 * miner.extranonce2_size
    /\ (miner.pc = "read_reply" /\ Len(wire) = 3) =>
        Len(wire[3].params[3]) = 2 * miner.extranonce2_size

\* --------------------------------------------------------------- C20

\* The first line of the subscribe reply in the buffer, parsed, and its result.
SubscribeReply == json_from_str(split_lines(miner.buffer)[1])

SubscribeResult == json_member(SubscribeReply.val, "result")

\* The buffer holds the subscribe reply and the reply has been accepted.
SubscribeAccepted ==
    \/ miner.pc = "authorize"
    \/ miner.pc = "read_job" /\ miner.response_data = <<>>

\* C20 as stated: the session fails, without sending mining.authorize, when
\* the first line of the subscribe reply is no valid JSON or its result is
\* absent or has fewer than three elements; so a reply that was accepted is
\* valid JSON with a result of three elements or more.
C20_AsStated ==
    SubscribeAccepted =>
        /\ SubscribeReply.ok
        /\ SubscribeResult.t = "arr"
        /\ Len(SubscribeResult.a) >= 3

\* The first line is valid JSON and its result holds a string at index 1.
HasExtranonce1 ==
    /\ SubscribeReply.ok
    /\ SubscribeResult.t = "arr"
    /\ Len(SubscribeResult.a) >= 2
    /\ SubscribeResult.a[2].t = "str"

\* C20, amended: the session fails, with mining.subscribe the only message
\* written, when the first line of the subscribe reply is no valid JSON or
\* its result is absent, has fewer than two elements or holds no string at
\* index 1; otherwise the reply is accepted, with that string as extranonce1,
\* whether or not the result has a third element.
C20_Subscribe ==
    /\ [][(miner.pc = "parse_subscribe" /\ miner' # miner) =>
            /\ wire' = wire
            /\ Len(wire) = 1
            /\ IF HasExtranonce1
               THEN /\ miner'.pc = "authorize"
                    /\ miner'.extranonce1 = Some(SubscribeResult.a[2].v)
               ELSE /\ miner'.pc = "main_delay"
                    /\ miner'.result = "err"]_vars
    /\ [](Len(wire) >= 2 => miner.pc \notin {"read_subscribe", "parse_subscribe"})

\* C20's case: a reply whose result has two elements was accepted.
C20_Witness ==
    /\ miner.pc = "read_job"
    /\ miner.response_data = <<>>
    /\ Len(wire) = 2
    /\ SubscribeResult.t = "arr"
    /\ Len(SubscribeResult.a) = 2

\* --------------------------------------------------------------- C21

\* C21: while it waits for a job the session keeps every token it reads, in
\* order, and goes on reading as long as what it has holds no mining.notify;
\* it leaves the wait for the decoding with the read that brings the first
\* mining.notify; and after the zero-byte read of a closed connection the
\* session has ended in error, no job was decoded, nothing was hashed and
\* nothing was written after mining.authorize.
C21_ReadLoop ==
    /\ miner.pc = "read_job" =>
        /\ ~contains_notify(miner.response_data)
        /\ Len(miner.response_data) = hist.received
        /\ ~miner.mining_job.ok
        /\ ~hist.closed
    /\ (miner.pc = "decode_job" \/ miner.mining_job.ok) =>
        /\ contains_notify(miner.response_data)
        /\ Len(miner.response_data) = hist.received
        /\ Len(miner.buffer) > 0
        /\ ~contains_notify(SubSeq(miner.response_data, 1,
                                   Len(miner.response_data) - Len(miner.buffer)))
        /\ ~hist.closed
    /\ hist.closed =>
        /\ miner.pc \in MainPcs
        /\ miner.result = "err"
        /\ ~miner.mining_job.ok
        /\ hashed_k = 0
        /\ ~last_hashed.ok
        /\ Len(wire) = 2

\* C21's case: the pool closed the connection after it had sent data that
\* holds no mining.notify.
C21_Witness ==
    /\ hist.closed
    /\ hist.received > 0
    /\ miner.pc = "main_delay"

\* --------------------------------------------------------------- C22

\* The read of the subscribe reply is still in the buffer, it held a
\* mining.notify line after the reply, and the session waits for its job
\* having read nothing more.
JobCameWithSubscribe ==
    /\ miner.pc = "read_job"
    /\ hist.received = 0
    /\ SubscribeReply.ok
    /\ contains_notify(miner.buffer)

\* C22 as stated: a mining.notify line delivered in the same read as the
\* subscribe reply is not lost; when the session starts to wait for its job,
\* that line is in the text the session searches for the job.
C22_AsStated ==
    JobCameWithSubscribe =>
        /\ contains_notify(miner.response_data)
        /\ JobLineIn(miner.response_data) = JobLineIn(miner.buffer)

\* --------------------------------------------------------------- C23

\* The mining.notify lines of the well-formed jobs.
WellFormedLines ==
    { NotifyLine(q) :
        q \in { r \in GoodParams \cup {SmallExponentParams} : WellFormedJob(r) } }

\* The job line of the text is the beginning of a well-formed mining.notify
\* line that stops inside the line, before the end of the JSON object.
SplitInside(data) ==
    \E line \in WellFormedLines : \E n \in 1 .. (Len(line) - 2) :
        JobLineIn(data) = SubSeq(line, 1, n)

\* C23 as stated: when a well-formed mining.notify line is split across
\* reads, the session waits for the whole line before it decodes the job; it
\* never starts to decode a job line that a read boundary has cut short.
C23_AsStated ==
    miner.pc = "decode_job" => ~SplitInside(miner.response_data)

====
